---- MODULE Spec2Model ----
(***************************************************************************)
(* Model of packages/lambdas/src/sqs-to-fhir.ts: the SQS-triggered lambda  *)
(* that downloads a FHIR bundle from S3, normalizes it, submits it to the  *)
(* FHIR server as a batch and resubmits it while the response holds        *)
(* failing entries, up to maxRetries submissions.                          *)
(*                                                                         *)
(* One behaviour is one invocation of handler(event).  Every await of the  *)
(* handler is split into the step that issues the call and the step that   *)
(* resumes the handler with the outcome; outcomes of the collaborators     *)
(* (S3, bundle parser, FHIR server, CloudWatch) are chosen by the          *)
(* environment.  Optional JavaScript values are sequences of length 0      *)
(* (undefined) or 1.                                                       *)
(***************************************************************************)
EXTENDS Integers, Sequences, FiniteSets, TLC

VARIABLES
  event,            \* the SQSEvent: event.Records is absent or a list of messages
  pc,               \* position of the handler
  i,                \* index of the record being processed (0-based, as in the code)
  s3,               \* result of parseBody for the current record
  metrics,          \* const metrics: Metrics = {} of the current record
  payload,          \* the normalized bundle of the current record
  response,         \* let response: Bundle | undefined
  count,            \* let count
  retry,            \* let retry
  error,            \* the error caught by the catch block
  raised,           \* the error the handler threw to the runtime
  inflight,         \* awaited calls issued and not yet resumed from
  blobReads,        \* per record: calls of executeWithRetriesS3
  normalizations,   \* per record: calls of parseRawBundleForFhirServer
  submissions,      \* per record: calls of fhirApi.executeBatch
  failedSubs,       \* per record: submissions answered with >= 1 failing entry
  cleanSubs,        \* per record: submissions answered with 0 failing entries
  reported,         \* per record: the Metrics handed to reportMetrics, in order
  captureMessages,  \* capture.message calls, in order
  captureErrors,    \* capture.error calls (the error passed in extra), in order
  submitted,        \* per record: the bundles passed to fhirApi.executeBatch
  fn,               \* what is running: "handler", or the helper called on its own
  arg,              \* the argument of the helper called on its own
  result            \* what that helper returned or threw

vars == << event, pc, i, s3, metrics, payload, response, count, retry, error,
           raised, inflight, blobReads, normalizations, submissions, failedSubs,
           cleanSubs, reported, captureMessages, captureErrors, submitted,
           fn, arg, result >>

----------------------------------------------------------------------------
(* Bounds and program constants *)

MaxRecords == 2

maxRetries == 10

----------------------------------------------------------------------------
(* Values *)

None == << >>
Some(x) == << x >>
IsSome(o) == Len(o) = 1
Get(o) == o[1]

\* Number.prototype.toString() for a natural number: its decimal digits.
Digit(d) == CASE d = 0 -> "0" [] d = 1 -> "1" [] d = 2 -> "2" [] d = 3 -> "3"
              [] d = 4 -> "4" [] d = 5 -> "5" [] d = 6 -> "6" [] d = 7 -> "7"
              [] d = 8 -> "8" [] OTHER -> "9"

RECURSIVE toString(_)
toString(n) == IF n < 10 THEN << Digit(n) >>
               ELSE toString(n \div 10) \o << Digit(n % 10) >>

\* String.prototype.startsWith on strings held as sequences of characters.
startsWith(s, prefix) ==
  /\ Len(s) >= Len(prefix)
  /\ SubSeq(s, 1, Len(prefix)) = prefix

----------------------------------------------------------------------------
(* Errors *)

NoInfo == [count |-> None, maxRetries |-> None]

Error(msg) == [message |-> msg, additionalInfo |-> NoInfo]

\* new MetriportError(`Too many errors from FHIR`, undefined, {count, maxRetries})
TooManyErrors(c) ==
  [message |-> "Too many errors from FHIR",
   additionalInfo |-> [count |-> Some(toString(c)),
                       maxRetries |-> Some(toString(maxRetries))]]

\* new MetriportError(msg, error) of the catch block
Wrapped(cause) == [message |-> "Error processing event on lambda", cause |-> cause]

----------------------------------------------------------------------------
(* Queue messages *)

\* JSON values that JSON.parse may return
JString(str) == [t |-> "string", v |-> str]
JNumber(digits) == [t |-> "number", v |-> digits]
JObject(f) == [t |-> "object", v |-> f]
JBoolean(text) == [t |-> "boolean", v |-> text]
JNull == [t |-> "null", v |-> "null"]

\* A message body: absent, or a string given by what JSON.parse makes of it
\* (text "" is the empty string, "garbage" a string JSON.parse rejects).
StringBody(text, json) == [type |-> "string", text |-> text, json |-> json]
EmptyBody == StringBody("", None)
GarbageBody == StringBody("garbage", None)
JsonBody(j) == StringBody("json", Some(j))
NumberBody == [type |-> "number", text |-> "", json |-> None]

FieldNames == {"s3BucketName", "s3FileName"}

ValidBody ==
  JsonBody(JObject([f \in FieldNames |->
     IF f = "s3BucketName" THEN JString("bucket1") ELSE JString("patientA.json")]))

NoFileNameBody ==
  JsonBody(JObject([f \in {"s3BucketName"} |-> JString("bucket1")]))

Attributes(cx, pat, started) ==
  [cxId |-> cx, patientId |-> pat, jobId |-> None, startedAt |-> started]

Message(attrs, body) == [messageAttributes |-> attrs, body |-> body]

GoodAttributes == Attributes(Some("cx1"), Some("pat1"), Some("2024-01-01"))

Messages ==
  { Message(Some(GoodAttributes), Some(ValidBody)),
    Message(Some(Attributes(Some("cx1"), Some("pat1"), None)), Some(ValidBody)),
    Message(None, Some(ValidBody)),
    Message(Some(GoodAttributes), None),
    Message(Some(GoodAttributes), Some(EmptyBody)),
    Message(Some(Attributes(None, Some("pat1"), None)), Some(ValidBody)),
    Message(Some(Attributes(Some("cx1"), None, None)), Some(ValidBody)),
    Message(Some(GoodAttributes), Some(GarbageBody)),
    Message(Some(GoodAttributes), Some(NoFileNameBody)) }

RECURSIVE SeqsUpTo(_, _)
SeqsUpTo(S, n) ==
  IF n = 0 THEN { << >> }
  ELSE LET shorter == SeqsUpTo(S, n - 1)
       IN  shorter \cup { Append(q, x) : q \in shorter, x \in S }

Events ==
  { [Records |-> None] } \cup { [Records |-> Some(q)] : q \in SeqsUpTo(Messages, MaxRecords) }

----------------------------------------------------------------------------
(* parseBody *)

\* a check that lets every value through, the empty string included
TruthyAlways(j) == TRUE

\* JavaScript truthiness of a JSON value
Truthy(j) == CASE j.t = "string" -> j.v # ""
               [] j.t = "number" -> j.v # "0"
               [] j.t = "boolean" -> j.v # "false"
               [] j.t = "null" -> FALSE
               [] OTHER -> TRUE

\* bodyAsJson.<name>: the property of an object, undefined otherwise
Property(j, name) ==
  IF j.t = "object" /\ name \in DOMAIN j.v THEN Some(j.v[name]) ELSE None

Failure(err) == [error |-> Some(err), value |-> None]
Success(v) == [error |-> None, value |-> Some(v)]

parseBody(body) ==
  IF ~IsSome(body) \/ Get(body).type # "string" \/ Get(body).text = ""
    THEN Failure(Error("Invalid body"))
  ELSE IF ~IsSome(Get(body).json)
    THEN Failure(Error("SyntaxError"))
  ELSE IF Get(Get(body).json).t = "null"
    THEN Failure(Error("TypeError"))
  ELSE
    LET bodyAsJson == Get(Get(body).json)
        s3BucketNameRaw == Property(bodyAsJson, "s3BucketName")
        s3FileNameRaw == Property(bodyAsJson, "s3FileName")
    IN  IF ~IsSome(s3BucketNameRaw) \/ ~Truthy(Get(s3BucketNameRaw))
          THEN Failure(Error("Missing s3BucketName"))
        ELSE IF Get(s3BucketNameRaw).t # "string"
          THEN Failure(Error("Invalid s3BucketName"))
        ELSE IF ~IsSome(s3FileNameRaw) \/ ~Truthy(Get(s3FileNameRaw))
          THEN Failure(Error("Missing s3FileName"))
        ELSE IF Get(s3FileNameRaw).t # "string"
          THEN Failure(Error("Invalid s3FileName"))
        ELSE Success([s3BucketName |-> Get(s3BucketNameRaw).v,
                      s3FileName |-> Get(s3FileNameRaw).v])

----------------------------------------------------------------------------
(* FHIR responses and getErrorsFromReponse *)

\* A response entry: e.response is absent, or holds a status that is absent
\* or a string.
Entry(resp) == [response |-> resp]
NoResponseEntry == Entry(None)
NoStatusEntry == Entry(Some([status |-> None]))
StatusEntry(chars) == Entry(Some([status |-> Some(chars)]))

Bundle(entry) == [entry |-> entry]

\* e => e.response?.status && !e.response.status.startsWith("2"): an entry
\* without response or status passes as a success
IsErrorEntryOnlyWithStatus(e) ==
  /\ IsSome(e.response)
  /\ IsSome(Get(e.response).status)
  /\ ~startsWith(Get(Get(e.response).status), << "2" >>)

\* e => !e.response?.status?.startsWith("2")
IsErrorEntry(e) ==
  ~( /\ IsSome(e.response)
     /\ IsSome(Get(e.response).status)
     /\ startsWith(Get(Get(e.response).status), << "2" >>) )

\* response?.entry ? response.entry : []
EntriesOf(resp) ==
  IF IsSome(resp) /\ IsSome(Get(resp).entry) THEN Get(Get(resp).entry) ELSE << >>

getErrorsFromReponse(resp) == SelectSeq(EntriesOf(resp), IsErrorEntry)

Ok200 == StatusEntry(<< "2", "0", "0" >>)
Ok201 == StatusEntry(<< "2", "0", "1" >>)
Err400 == StatusEntry(<< "4", "0", "0" >>)

\* What executeWithNetworkRetries(() => fhirApi.executeBatch(payload)) may
\* resolve to.
Responses ==
  { None,
    Some(Bundle(None)),
    Some(Bundle(Some(<< >>))),
    Some(Bundle(Some(<< Ok200, Ok201 >>))),
    Some(Bundle(Some(<< Ok200, Err400 >>))),
    Some(Bundle(Some(<< NoResponseEntry >>))),
    Some(Bundle(Some(<< NoStatusEntry, Ok200 >>))) }

----------------------------------------------------------------------------
(* The handler *)

Records == Get(event.Records)
message == Records[i + 1]
Jobs == 0 .. (MaxRecords - 1)

NoMetrics == [download |-> None, errorCount |-> None, upsert |-> None, job |-> None]

\* An awaited call of record j that has been issued and not yet resumed from
Call(j, name, n) == [job |-> j, call |-> name, n |-> n]

\* throw inside the try block: control goes to the catch block
Throw(err) ==
  /\ pc' = "catch"
  /\ error' = Some(err)

Init ==
  /\ event \in Events
  /\ pc = "start"
  /\ i = 0
  /\ s3 = None
  /\ metrics = NoMetrics
  /\ payload = None
  /\ response = None
  /\ count = 0
  /\ retry = TRUE
  /\ error = None
  /\ raised = None
  /\ inflight = {}
  /\ blobReads = [j \in Jobs |-> 0]
  /\ normalizations = [j \in Jobs |-> 0]
  /\ submissions = [j \in Jobs |-> 0]
  /\ failedSubs = [j \in Jobs |-> 0]
  /\ cleanSubs = [j \in Jobs |-> 0]
  /\ reported = [j \in Jobs |-> << >>]
  /\ captureMessages = << >>
  /\ captureErrors = << >>
  /\ submitted = [j \in Jobs |-> {}]
  /\ fn = "handler"
  /\ arg = None
  /\ result = None

\* an event without records treated as an error instead of a normal return
CheckRecordsThrowing ==
  /\ pc = "start"
  /\ IF ~IsSome(event.Records) \/ Len(Records) < 1
       THEN Throw(Error("No records"))
       ELSE pc' = "notify" /\ UNCHANGED error
  /\ UNCHANGED << fn, arg, result, submitted, event, i, s3, metrics, payload, response, count, retry,
                  raised, inflight, blobReads, normalizations, submissions,
                  failedSubs, cleanSubs, reported, captureMessages, captureErrors >>

\* if (!records || records.length < 1) return;
CheckRecords ==
  /\ pc = "start"
  /\ pc' = IF ~IsSome(event.Records) \/ Len(Records) < 1 THEN "returned" ELSE "notify"
  /\ UNCHANGED << fn, arg, result, submitted, event, i, s3, metrics, payload, response, count, retry, error,
                  raised, inflight, blobReads, normalizations, submissions,
                  failedSubs, cleanSubs, reported, captureMessages, captureErrors >>

\* if (records.length > 1) capture.message("Got more than one message from SQS")
NotifyMoreThanOne ==
  /\ pc = "notify"
  /\ captureMessages' =
       IF Len(Records) > 1
         THEN Append(captureMessages, "Got more than one message from SQS")
         ELSE captureMessages
  /\ i' = 0
  /\ pc' = "for"
  /\ UNCHANGED << fn, arg, result, submitted, event, s3, metrics, payload, response, count, retry, error,
                  raised, inflight, blobReads, normalizations, submissions,
                  failedSubs, cleanSubs, reported, captureErrors >>

\* a loop that takes the first record only and drops the others
ForRecordsFirstOnly ==
  /\ pc = "for"
  /\ pc' = IF i < 1 /\ i < Len(Records) THEN "validate" ELSE "returned"
  /\ UNCHANGED << fn, arg, result, submitted, event, i, s3, metrics, payload, response, count, retry, error,
                  raised, inflight, blobReads, normalizations, submissions,
                  failedSubs, cleanSubs, reported, captureMessages, captureErrors >>

\* for (const [i, message] of records.entries()), and console.log(`Done`)
\* followed by the normal return once the records are used up
ForRecords ==
  /\ pc = "for"
  /\ pc' = IF i < Len(Records) THEN "validate" ELSE "returned"
  /\ UNCHANGED << fn, arg, result, submitted, event, i, s3, metrics, payload, response, count, retry, error,
                  raised, inflight, blobReads, normalizations, submissions,
                  failedSubs, cleanSubs, reported, captureMessages, captureErrors >>

\* the checks with the one of cxId left out
ValidationErrorWithoutCxId(m) ==
  IF ~IsSome(m.messageAttributes) THEN Some(Error("Missing message attributes"))
  ELSE IF ~IsSome(m.body) \/ Get(m.body).text = "" THEN Some(Error("Missing message body"))
  ELSE IF ~IsSome(Get(m.messageAttributes).patientId) THEN Some(Error("Missing patientId"))
  ELSE None

\* The checks of the message's attributes and body, in the order of the code
ValidationError(m) ==
  IF ~IsSome(m.messageAttributes) THEN Some(Error("Missing message attributes"))
  ELSE IF ~IsSome(m.body) \/ Get(m.body).text = "" THEN Some(Error("Missing message body"))
  ELSE IF ~IsSome(Get(m.messageAttributes).cxId) THEN Some(Error("Missing cxId"))
  ELSE IF ~IsSome(Get(m.messageAttributes).patientId) THEN Some(Error("Missing patientId"))
  ELSE None

Validate ==
  /\ pc = "validate"
  /\ IF IsSome(ValidationError(message))
       THEN Throw(Get(ValidationError(message)))
       ELSE pc' = "parseBody" /\ UNCHANGED error
  /\ UNCHANGED << fn, arg, result, submitted, event, i, s3, metrics, payload, response, count, retry,
                  raised, inflight, blobReads, normalizations, submissions,
                  failedSubs, cleanSubs, reported, captureMessages, captureErrors >>

\* const { s3BucketName, s3FileName } = parseBody(message.body);
\* const metrics: Metrics = {};
ParseBody ==
  /\ pc = "parseBody"
  /\ LET parsed == parseBody(message.body)
     IN  IF IsSome(parsed.error)
           THEN Throw(Get(parsed.error)) /\ UNCHANGED << s3, metrics >>
           ELSE /\ s3' = parsed.value
                /\ metrics' = NoMetrics
                /\ pc' = "fetch"
                /\ UNCHANGED error
  /\ UNCHANGED << fn, arg, result, submitted, event, i, payload, response, count, retry,
                  raised, inflight, blobReads, normalizations, submissions,
                  failedSubs, cleanSubs, reported, captureMessages, captureErrors >>

\* executeWithRetriesS3(() => s3Utils.getFileContentsAsString(...)) is called
FetchStart ==
  /\ pc = "fetch"
  /\ blobReads' = [blobReads EXCEPT ![i] = @ + 1]
  /\ inflight' = inflight \cup { Call(i, "executeWithRetriesS3", blobReads[i] + 1) }
  /\ pc' = "await_fetch"
  /\ UNCHANGED << fn, arg, result, submitted, event, i, s3, metrics, payload, response, count, retry, error,
                  raised, normalizations, submissions,
                  failedSubs, cleanSubs, reported, captureMessages, captureErrors >>

\* the await resumes: with the contents (metrics.download is set) or with the
\* error executeWithRetriesS3 gave up with
FetchReturn ==
  /\ pc = "await_fetch"
  /\ inflight' = inflight \ { Call(i, "executeWithRetriesS3", blobReads[i]) }
  /\ \E ok \in BOOLEAN :
       IF ok
         THEN /\ metrics' = [metrics EXCEPT !.download = Some("duration")]
              /\ pc' = "normalize"
              /\ UNCHANGED error
         ELSE Throw(Error("S3 error")) /\ UNCHANGED metrics
  /\ UNCHANGED << fn, arg, result, submitted, event, i, s3, payload, response, count, retry,
                  raised, blobReads, normalizations, submissions,
                  failedSubs, cleanSubs, reported, captureMessages, captureErrors >>

\* const payload: Bundle = parseRawBundleForFhirServer(payloadRaw, patientId);
Normalize ==
  /\ pc = "normalize"
  /\ normalizations' = [normalizations EXCEPT ![i] = @ + 1]
  /\ \E ok \in BOOLEAN :
       IF ok
         THEN /\ payload' = Some([patientId |-> Get(Get(message.messageAttributes).patientId),
                                  contentsOf |-> Get(s3)])
              /\ pc' = "initLoop"
              /\ UNCHANGED error
         ELSE Throw(Error("Invalid bundle")) /\ UNCHANGED payload
  /\ UNCHANGED << fn, arg, result, submitted, event, i, s3, metrics, response, count, retry,
                  raised, inflight, blobReads, submissions,
                  failedSubs, cleanSubs, reported, captureMessages, captureErrors >>

\* count declared outside the for loop: it is not reset for the next record
InitLoopKeepingCount ==
  /\ pc = "initLoop"
  /\ response' = None
  /\ retry' = TRUE
  /\ pc' = "while"
  /\ UNCHANGED << fn, arg, result, submitted, event, i, s3, metrics, payload, error, count,
                  raised, inflight, blobReads, normalizations, submissions,
                  failedSubs, cleanSubs, reported, captureMessages, captureErrors >>

\* let response; ... let count = 0; let retry = true;
InitLoop ==
  /\ pc = "initLoop"
  /\ response' = None
  /\ count' = 0
  /\ retry' = TRUE
  /\ pc' = "while"
  /\ UNCHANGED << fn, arg, result, submitted, event, i, s3, metrics, payload, error,
                  raised, inflight, blobReads, normalizations, submissions,
                  failedSubs, cleanSubs, reported, captureMessages, captureErrors >>

\* the call issued without await: the loop reads the pending promise, which
\* has no entry, finds no errors and breaks while the call is still in flight
SubmitStartNotAwaited ==
  /\ pc = "while"
  /\ count' = count + 1
  /\ submissions' = [submissions EXCEPT ![i] = @ + 1]
  /\ inflight' = inflight \cup { Call(i, "executeBatch", submissions[i] + 1) }
  /\ submitted' = [submitted EXCEPT ![i] = @ \cup { payload }]
  /\ pc' = "afterLoop"
  /\ UNCHANGED << fn, arg, result, event, i, s3, metrics, payload, response, retry, error,
                  raised, blobReads, normalizations,
                  failedSubs, cleanSubs, reported, captureMessages, captureErrors >>

\* count++ left out: retry never turns false and the loop has no last attempt
SubmitStartNotCounting ==
  /\ pc = "while"
  /\ IF retry
       THEN /\ submissions' = [submissions EXCEPT ![i] = @ + 1]
            /\ inflight' = inflight \cup { Call(i, "executeBatch", submissions[i] + 1) }
            /\ submitted' = [submitted EXCEPT ![i] = @ \cup { payload }]
            /\ pc' = "await_submit"
       ELSE /\ pc' = "afterLoop"
            /\ UNCHANGED << submissions, inflight, submitted >>
  /\ UNCHANGED << fn, arg, result, event, i, s3, metrics, payload, response, retry, error,
                  raised, blobReads, normalizations, count,
                  failedSubs, cleanSubs, reported, captureMessages, captureErrors >>

\* a retry that downloads and normalizes the bundle again before resubmitting
SubmitStartRefetching ==
  /\ pc = "while"
  /\ IF retry /\ count = 0
       THEN /\ count' = count + 1
            /\ submissions' = [submissions EXCEPT ![i] = @ + 1]
            /\ inflight' = inflight \cup { Call(i, "executeBatch", submissions[i] + 1) }
            /\ submitted' = [submitted EXCEPT ![i] = @ \cup { payload }]
            /\ pc' = "await_submit"
       ELSE /\ pc' = IF retry THEN "fetch" ELSE "afterLoop"
            /\ UNCHANGED << count, submissions, inflight, submitted >>
  /\ UNCHANGED << fn, arg, result, event, i, s3, metrics, payload, response, retry, error,
                  raised, blobReads, normalizations,
                  failedSubs, cleanSubs, reported, captureMessages, captureErrors >>

\* while (retry) { count++; response = await executeWithNetworkRetries(...)
\* up to the point where the call has been issued
SubmitStart ==
  /\ pc = "while"
  /\ IF retry
       THEN /\ count' = count + 1
            /\ submissions' = [submissions EXCEPT ![i] = @ + 1]
            /\ inflight' = inflight \cup { Call(i, "executeBatch", submissions[i] + 1) }
            /\ submitted' = [submitted EXCEPT ![i] = @ \cup { payload }]
            /\ pc' = "await_submit"
       ELSE /\ pc' = "afterLoop"
            /\ UNCHANGED << count, submissions, inflight, submitted >>
  /\ UNCHANGED << fn, arg, result, event, i, s3, metrics, payload, response, retry, error,
                  raised, blobReads, normalizations,
                  failedSubs, cleanSubs, reported, captureMessages, captureErrors >>

\* retry = count <= maxRetries: one submission too many
ShouldRetryOffByOne(c) == c <= maxRetries

\* retry = count < maxRetries - 1: the loop gives up one submission early
ShouldRetryOneLess(c) == c < maxRetries - 1

\* retry = count < maxRetries
ShouldRetry(c) == c < maxRetries

\* a loop that goes on whatever the response holds
NeverBreaks(errors) == FALSE

\* if (errors.length <= 0) break;
\* a loop that is left after the first response whatever it holds
AlwaysBreaks(errors) == TRUE

LoopBreaks(errors) == Len(errors) <= 0

\* a transport failure caught inside the loop and counted as one more failed
\* attempt of the application-level retry
SubmitReturnRetryingTransportFailures ==
  /\ pc = "await_submit"
  /\ inflight' = inflight \ { Call(i, "executeBatch", submissions[i]) }
  /\ \/ /\ retry' = ShouldRetry(count)
        /\ IF ~retry'
             THEN Throw(TooManyErrors(count))
             ELSE pc' = "while" /\ UNCHANGED error
        /\ UNCHANGED << response, failedSubs, cleanSubs >>
     \/ \E r \in Responses :
          /\ response' = r
          /\ IF Len(getErrorsFromReponse(r)) = 0
               THEN /\ cleanSubs' = [cleanSubs EXCEPT ![i] = @ + 1]
                    /\ UNCHANGED failedSubs
               ELSE /\ failedSubs' = [failedSubs EXCEPT ![i] = @ + 1]
                    /\ UNCHANGED cleanSubs
          /\ IF LoopBreaks(getErrorsFromReponse(r))
               THEN /\ pc' = "afterLoop"
                    /\ UNCHANGED << retry, error >>
               ELSE /\ retry' = ShouldRetry(count)
                    /\ IF ~retry'
                         THEN Throw(TooManyErrors(count))
                         ELSE pc' = "while" /\ UNCHANGED error
  /\ UNCHANGED << fn, arg, result, submitted, event, i, s3, metrics, payload, count,
                  raised, blobReads, normalizations, submissions,
                  reported, captureMessages, captureErrors >>

\* the await resumes with a response, which is evaluated (lines 131-144), or
\* with the error executeWithNetworkRetries gave up with
SubmitReturn ==
  /\ pc = "await_submit"
  /\ inflight' = inflight \ { Call(i, "executeBatch", submissions[i]) }
  /\ \/ /\ Throw(Error("Network error"))
        /\ UNCHANGED << response, retry, failedSubs, cleanSubs >>
     \/ \E r \in Responses :
          /\ response' = r
          /\ IF Len(getErrorsFromReponse(r)) = 0
               THEN /\ cleanSubs' = [cleanSubs EXCEPT ![i] = @ + 1]
                    /\ UNCHANGED failedSubs
               ELSE /\ failedSubs' = [failedSubs EXCEPT ![i] = @ + 1]
                    /\ UNCHANGED cleanSubs
          /\ IF LoopBreaks(getErrorsFromReponse(r))
               THEN /\ pc' = "afterLoop"
                    /\ UNCHANGED << retry, error >>
               ELSE /\ retry' = ShouldRetry(count)
                    /\ IF ~retry'
                         THEN Throw(TooManyErrors(count))
                         ELSE pc' = "while" /\ UNCHANGED error
  /\ UNCHANGED << fn, arg, result, submitted, event, i, s3, metrics, payload, count,
                  raised, blobReads, normalizations, submissions,
                  reported, captureMessages, captureErrors >>

\* metrics.errorCount holding the number of failed submissions (count - 1)
\* instead of the number of submissions
SetMetricsCountingErrors ==
  /\ pc = "afterLoop"
  /\ metrics' = [metrics EXCEPT
                   !.errorCount = Some(count - 1),
                   !.upsert = Some("duration"),
                   !.job = IF IsSome(Get(message.messageAttributes).startedAt)
                             THEN Some("duration") ELSE @]
  /\ pc' = "process"
  /\ UNCHANGED << fn, arg, result, submitted, event, i, s3, payload, response, count, retry, error,
                  raised, inflight, blobReads, normalizations, submissions,
                  failedSubs, cleanSubs, reported, captureMessages, captureErrors >>

\* the assignment of metrics.errorCount left out
SetMetricsWithoutErrorCount ==
  /\ pc = "afterLoop"
  /\ metrics' = [metrics EXCEPT
                   !.upsert = Some("duration"),
                   !.job = IF IsSome(Get(message.messageAttributes).startedAt)
                             THEN Some("duration") ELSE @]
  /\ pc' = "process"
  /\ UNCHANGED << fn, arg, result, submitted, event, i, s3, payload, response, count, retry, error,
                  raised, inflight, blobReads, normalizations, submissions,
                  failedSubs, cleanSubs, reported, captureMessages, captureErrors >>

\* metrics.errorCount = ...; metrics.upsert = ...; if (jobStartedAt) metrics.job = ...
SetMetrics ==
  /\ pc = "afterLoop"
  /\ metrics' = [metrics EXCEPT
                   !.errorCount = Some(count),
                   !.upsert = Some("duration"),
                   !.job = IF IsSome(Get(message.messageAttributes).startedAt)
                             THEN Some("duration") ELSE @]
  /\ pc' = "process"
  /\ UNCHANGED << fn, arg, result, submitted, event, i, s3, payload, response, count, retry, error,
                  raised, inflight, blobReads, normalizations, submissions,
                  failedSubs, cleanSubs, reported, captureMessages, captureErrors >>

\* processFHIRResponse(response, event, log)
processFHIRResponse ==
  /\ pc = "process"
  /\ captureMessages' =
       IF Len(getErrorsFromReponse(response)) > 0
         THEN Append(captureMessages, "Error upserting Bundle on FHIR server")
         ELSE captureMessages
  /\ pc' = "report"
  /\ UNCHANGED << fn, arg, result, submitted, event, i, s3, metrics, payload, response, count, retry, error,
                  raised, inflight, blobReads, normalizations, submissions,
                  failedSubs, cleanSubs, reported, captureErrors >>

\* cloudWatchUtils.reportMetrics(metrics) is called
ReportStart ==
  /\ pc = "report"
  /\ reported' = [reported EXCEPT ![i] = Append(@, metrics)]
  /\ inflight' = inflight \cup { Call(i, "reportMetrics", Len(reported[i]) + 1) }
  /\ pc' = "await_report"
  /\ UNCHANGED << fn, arg, result, submitted, event, i, s3, metrics, payload, response, count, retry, error,
                  raised, blobReads, normalizations, submissions,
                  failedSubs, cleanSubs, captureMessages, captureErrors >>

\* the await resumes: the loop body ends and the next record is taken, or
\* the promise was rejected
ReportReturn ==
  /\ pc = "await_report"
  /\ inflight' = inflight \ { Call(i, "reportMetrics", Len(reported[i])) }
  /\ \E ok \in BOOLEAN :
       IF ok
         THEN i' = i + 1 /\ pc' = "for" /\ UNCHANGED error
         ELSE Throw(Error("CloudWatch error")) /\ UNCHANGED i
  /\ UNCHANGED << fn, arg, result, submitted, event, s3, metrics, payload, response, count, retry,
                  raised, blobReads, normalizations, submissions,
                  failedSubs, cleanSubs, reported, captureMessages, captureErrors >>

\* the catch block without the call of capture.error
CatchWithoutCapture ==
  /\ pc = "catch"
  /\ pc' = "rethrow"
  /\ UNCHANGED << fn, arg, result, submitted, event, i, s3, metrics, payload, response, count, retry, error,
                  raised, inflight, blobReads, normalizations, submissions,
                  failedSubs, cleanSubs, reported, captureMessages, captureErrors >>

\* catch (error) { ...; capture.error(msg, { extra: { event, context, error } });
Catch ==
  /\ pc = "catch"
  /\ captureErrors' = Append(captureErrors, Get(error))
  /\ pc' = "rethrow"
  /\ UNCHANGED << fn, arg, result, submitted, event, i, s3, metrics, payload, response, count, retry, error,
                  raised, inflight, blobReads, normalizations, submissions,
                  failedSubs, cleanSubs, reported, captureMessages >>

\* throw new MetriportError(msg, error); }
Rethrow ==
  /\ pc = "rethrow"
  /\ raised' = Some(Wrapped(Get(error)))
  /\ pc' = "raised"
  /\ UNCHANGED << fn, arg, result, submitted, event, i, s3, metrics, payload, response, count, retry, error,
                  inflight, blobReads, normalizations, submissions,
                  failedSubs, cleanSubs, reported, captureMessages, captureErrors >>

Next ==
  \/ CheckRecords
  \/ NotifyMoreThanOne
  \/ ForRecords
  \/ Validate
  \/ ParseBody
  \/ FetchStart
  \/ FetchReturn
  \/ Normalize
  \/ InitLoop
  \/ SubmitStart
  \/ SubmitReturn
  \/ SetMetrics
  \/ processFHIRResponse
  \/ ReportStart
  \/ ReportReturn
  \/ Catch
  \/ Rethrow

Spec == Init /\ [][Next]_vars

\* The runtime runs the handler up to its next await, and every awaited call
\* eventually resolves or rejects: a step that can be taken is taken.
SpecFair == Spec /\ WF_vars(Next)

----------------------------------------------------------------------------
(* Properties *)

Caught == {"catch", "rethrow", "raised"}

Failed(msg) == IsSome(error) /\ Get(error).message = msg

TooManyErrorsOfTen ==
  [message |-> "Too many errors from FHIR",
   additionalInfo |-> [count |-> Some(<< "1", "0" >>),
                       maxRetries |-> Some(<< "1", "0" >>)]]

\* C1: no record ever gets more than 10 submissions; when 10 submissions of a
\* record were each answered with at least one failing entry, exactly 10 were
\* made and the handler is in its catch path with the error 'Too many errors
\* from FHIR' carrying count "10" and maxRetries "10"; and that error is
\* raised in no other case.
C1_RetryCeiling ==
  /\ \A j \in Jobs : submissions[j] <= 10
  /\ \A j \in Jobs :
       failedSubs[j] = 10 =>
         /\ j = i
         /\ submissions[j] = 10
         /\ pc \in Caught
         /\ error = Some(TooManyErrorsOfTen)
  /\ Failed("Too many errors from FHIR") =>
       /\ error = Some(TooManyErrorsOfTen)
       /\ submissions[i] = 10
       /\ failedSubs[i] = 10

C1_Witness ==
  /\ pc = "raised"
  /\ raised = Some(Wrapped(TooManyErrorsOfTen))
  /\ submissions[i] = 10

AfterLoop == {"afterLoop", "process", "report", "await_report"}

\* C2: a submission answered with zero failing entries ends the retry loop
\* of its record: it is the last submission of the record (k submissions
\* after k-1 failing ones, 1 <= k <= 10), the loop raised no error, and the
\* handler is at the metrics steps of that record or past them.
C2_StopsOnFirstCleanResponse ==
  \A j \in Jobs :
    cleanSubs[j] >= 1 =>
      /\ cleanSubs[j] = 1
      /\ submissions[j] = failedSubs[j] + 1
      /\ submissions[j] \in 1 .. 10
      /\ \A c \in inflight : ~(c.job = j /\ c.call = "executeBatch")
      /\ j <= i
      /\ j = i =>
           /\ count = submissions[j]
           /\ \/ pc \in AfterLoop /\ error = None
              \/ pc \in Caught /\ Failed("CloudWatch error") /\ Len(reported[j]) = 1
      /\ j < i => Len(reported[j]) = 1

C2_Witness ==
  /\ pc = "for"
  /\ i = 1
  /\ submissions[0] = 2
  /\ failedSubs[0] = 1
  /\ cleanSubs[0] = 1
  /\ Len(reported[0]) = 1
  /\ reported[0][1].errorCount = Some(2)
  /\ error = None

FatalErrors ==
  { "Missing message attributes", "Missing message body", "Missing cxId",
    "Missing patientId", "Invalid body", "SyntaxError", "Missing s3BucketName",
    "Invalid s3BucketName", "Missing s3FileName", "Invalid s3FileName",
    "S3 error", "Invalid bundle", "Network error", "Too many errors from FHIR",
    "CloudWatch error" }

\* C3: once a stage has failed the handler is in its catch path and nowhere
\* else; capture.error is called at most once, it has been called with the
\* original error before the handler raises, the handler raises the wrapped
\* error with that error as its cause, and a handler that returned normally
\* had no failure and made no capture.error call.
C3_OneCaptureThenRaise ==
  /\ Len(captureErrors) <= 1
  /\ IsSome(error) <=> pc \in Caught
  /\ IsSome(error) => Get(error).message \in FatalErrors
  /\ pc = "catch" => captureErrors = << >>
  /\ pc \in {"rethrow", "raised"} => captureErrors = << Get(error) >>
  /\ IsSome(raised) <=> pc = "raised"
  /\ pc = "raised" => raised = Some(Wrapped(Get(error)))
  /\ pc \notin Caught => captureErrors = << >>

C3_Witness ==
  /\ pc = "raised"
  /\ raised = Some(Wrapped(Error("S3 error")))
  /\ captureErrors = << Error("S3 error") >>

\* C4 (as claimed): reportMetrics is called at most once per record, exactly
\* once for a record that completed, never for the record whose processing
\* failed fatally, and never before the retry loop of the record has ended.
C4_FlushOnceIffSuccess ==
  \A j \in Jobs :
    /\ Len(reported[j]) <= 1
    /\ j < i => Len(reported[j]) = 1
    /\ (j = i /\ IsSome(error)) => reported[j] = << >>
    /\ (j = i /\ pc \notin {"report", "await_report"} \cup Caught) => reported[j] = << >>
    /\ j > i => reported[j] = << >>

\* C5: every Metrics handed to reportMetrics holds a download and an upsert
\* entry, and its errorCount.count is the number of submissions made for the
\* record.
C5_FlushedMetricsComplete ==
  \A j \in Jobs :
    \A k \in 1 .. Len(reported[j]) :
      /\ IsSome(reported[j][k].download)
      /\ IsSome(reported[j][k].upsert)
      /\ reported[j][k].errorCount = Some(submissions[j])

C5_Witness ==
  /\ Len(reported[0]) = 1
  /\ reported[0][1].errorCount = Some(1)
  /\ submissions[0] = 1
  /\ IsSome(reported[0][1].download)
  /\ IsSome(reported[0][1].upsert)

\* C6 (as claimed): after the retry loop has ended, by a response without
\* failing entries or by the error 'Too many errors from FHIR', the Metrics
\* of the record hold errorCount with the attempt count reached.
C6_ErrorCountInEitherOutcome ==
  /\ pc \in {"process", "report", "await_report"} => metrics.errorCount = Some(count)
  /\ (pc \in {"rethrow", "raised"} /\ Failed("Too many errors from FHIR")) =>
       metrics.errorCount = Some(count)

\* C6 (amended): the attempt count reaches the Metrics only when the loop
\* ended by a response without failing entries; when it ended by 'Too many
\* errors from FHIR' the Metrics hold no errorCount, nothing is handed to
\* reportMetrics for the record, and the attempt count is carried by the
\* error alone.
C6_ErrorCountOnlyWhenDone ==
  /\ pc \in {"process", "report", "await_report"} =>
       /\ metrics.errorCount = Some(count)
       /\ count = submissions[i]
  /\ Failed("Too many errors from FHIR") =>
       /\ metrics.errorCount = None
       /\ reported[i] = << >>
       /\ count = submissions[i]
       /\ Get(error).additionalInfo.count = Some(toString(count))

C6_Witness ==
  /\ pc = "raised"
  /\ Failed("Too many errors from FHIR")
  /\ count = 10
  /\ metrics.errorCount = None
  /\ IsSome(metrics.download)

\* C7 (as claimed): a rejected reportMetrics call does not put the handler on
\* its catch path: the record counts as done and the loop goes on.
C7_SinkFailureNotFatal ==
  Failed("CloudWatch error") => pc \notin Caught

IsMoreThanOne(m) == m = "Got more than one message from SQS"

Notifications == Len(SelectSeq(captureMessages, IsMoreThanOne))

Completed(j) ==
  /\ blobReads[j] = 1
  /\ normalizations[j] = 1
  /\ cleanSubs[j] = 1
  /\ Len(reported[j]) = 1

Untouched(j) ==
  /\ blobReads[j] = 0
  /\ normalizations[j] = 0
  /\ submissions[j] = 0
  /\ reported[j] = << >>

ManyRecords == IsSome(event.Records) /\ Len(Records) > 1

\* C8 (as claimed): with more than one record, one notification is emitted
\* before any record is taken up, and once the handler has ended every
\* record has been taken up.
C8_EveryRecordProcessed ==
  /\ ManyRecords /\ pc \notin {"start", "notify"} => Notifications = 1
  /\ ManyRecords /\ pc \in {"start", "notify"} => Notifications = 0 /\ \A j \in Jobs : Untouched(j)
  /\ ManyRecords /\ pc \in {"returned", "raised"} => i >= Len(Records) - 1

\* C8 (amended): with more than one record, one notification is emitted
\* before any record is taken up and it does not raise; the records are then
\* processed in order and none is skipped: every record before the current
\* one was completed, every record after it is untouched, a normal return
\* happens only after the last record, and records stay unprocessed only
\* when the handler raised for an earlier record.
C8_ProcessedInOrderUntilFatal ==
  /\ ManyRecords /\ pc \notin {"start", "notify"} => Notifications = 1
  /\ ManyRecords /\ pc \in {"start", "notify"} => Notifications = 0 /\ \A j \in Jobs : Untouched(j)
  /\ ~ManyRecords => Notifications = 0
  /\ pc \in {"notify", "for"} => error = None
  /\ \A j \in Jobs :
       /\ j < i => Completed(j)
       /\ j > i => Untouched(j)
  /\ (pc = "returned" /\ IsSome(event.Records)) => i = Len(Records)
  /\ (ManyRecords /\ i < Len(Records) /\ pc \notin {"start", "notify"}) => pc # "returned"
  /\ (ManyRecords /\ pc = "raised" /\ i < Len(Records) - 1) => IsSome(error)

C8_Witness ==
  /\ ManyRecords
  /\ pc = "returned"
  /\ i = 2
  /\ Notifications = 1
  /\ Completed(0)
  /\ Completed(1)

InFlight(j, name) == { c \in inflight : c.job = j /\ c.call = name }

\* C9: at most one awaited call is in flight, and it belongs to the current
\* record; a submission is issued only when every earlier submission of the
\* record has been answered; the records after the current one have issued
\* nothing and the records before it are completed.
C9_OneCallInFlight ==
  /\ Cardinality(inflight) <= 1
  /\ \A c \in inflight : c.job = i
  /\ \A c \in inflight : c.call = "executeBatch" => c.n = submissions[i]
  /\ \A j \in Jobs :
       submissions[j] = failedSubs[j] + cleanSubs[j]
                        + Cardinality(InFlight(j, "executeBatch"))
                        + (IF j = i /\ Failed("Network error") THEN 1 ELSE 0)
  /\ \A j \in Jobs :
       /\ j > i => Untouched(j)
       /\ j < i => Completed(j) /\ \A c \in inflight : c.job # j

C9_Witness ==
  /\ i = 1
  /\ inflight = { Call(1, "executeBatch", 2) }
  /\ failedSubs[1] = 1
  /\ Completed(0)

MalformedBody(b) ==
  \/ ~IsSome(b)
  \/ Get(b).type # "string"
  \/ ~IsSome(Get(b).json)
  \/ Get(Get(b).json).t # "object"
  \/ \E f \in FieldNames :
       \/ f \notin DOMAIN Get(Get(b).json).v
       \/ Get(Get(b).json).v[f].t # "string"
       \/ Get(Get(b).json).v[f].v = ""

MalformedMessage(m) ==
  \/ ~IsSome(m.messageAttributes)
  \/ ~IsSome(Get(m.messageAttributes).cxId)
  \/ ~IsSome(Get(m.messageAttributes).patientId)
  \/ MalformedBody(m.body)

BeforeParsed == {"start", "notify", "for", "validate", "parseBody"}

\* C10: a record whose message is malformed gets no blob read, no
\* normalization and no submission, and the handler goes from its checks
\* straight to the catch path; a bundle that fails normalization gets no
\* submission, and the blob was read once and normalized once.
C10_MalformedInputNotRetried ==
  /\ \A j \in Jobs :
       (IsSome(event.Records) /\ j < Len(Records) /\ MalformedMessage(Records[j + 1])) =>
         /\ Untouched(j)
         /\ j >= i
         /\ (j = i /\ pc \notin BeforeParsed) => pc \in Caught
  /\ Failed("Invalid bundle") =>
       /\ pc \in Caught
       /\ submissions[i] = 0
       /\ blobReads[i] = 1
       /\ normalizations[i] = 1

C10_Witness ==
  /\ pc = "raised"
  /\ Failed("Missing cxId")
  /\ i = 1
  /\ Untouched(1)
  /\ Completed(0)

C10_WitnessBundle ==
  /\ pc = "raised"
  /\ Failed("Invalid bundle")
  /\ submissions[i] = 0

----------------------------------------------------------------------------
(* parseBody and getErrorsFromReponse called on their own *)

MaxEntries == 3

Statuses ==
  { << "2", "0", "0" >>, << "2" >>, << >>, << "4", "0", "4" >>,
    << "1", "2" >>, << "5", "0", "2" >> }

Entries == { NoResponseEntry, NoStatusEntry } \cup { StatusEntry(st) : st \in Statuses }

ResponseBundles ==
  { None, Some(Bundle(None)) }
    \cup { Some(Bundle(Some(es))) : es \in SeqsUpTo(Entries, MaxEntries) }

PropertyNames == FieldNames \cup {"other"}

PropertyValues ==
  { JString("bucket1"), JString("patientA.json"), JString(""), JNumber("5"),
    JNumber("0"), JBoolean("true"), JNull }

JsonValues ==
  { JNull, JNumber("5"), JString("text") }
    \cup { JObject(f) : f \in UNION { [D -> PropertyValues] : D \in SUBSET PropertyNames } }

Bodies ==
  { None, Some(NumberBody), Some(EmptyBody), Some(GarbageBody) }
    \cup { Some(JsonBody(j)) : j \in JsonValues }

InitHelper ==
  /\ \/ fn = "parseBody" /\ arg \in Bodies
     \/ fn = "getErrorsFromReponse" /\ arg \in ResponseBundles
  /\ result = None
  /\ event = [Records |-> None]
  /\ pc = "helper"
  /\ i = 0
  /\ s3 = None
  /\ metrics = NoMetrics
  /\ payload = None
  /\ response = None
  /\ count = 0
  /\ retry = TRUE
  /\ error = None
  /\ raised = None
  /\ inflight = {}
  /\ blobReads = [j \in Jobs |-> 0]
  /\ normalizations = [j \in Jobs |-> 0]
  /\ submissions = [j \in Jobs |-> 0]
  /\ failedSubs = [j \in Jobs |-> 0]
  /\ cleanSubs = [j \in Jobs |-> 0]
  /\ reported = [j \in Jobs |-> << >>]
  /\ captureMessages = << >>
  /\ captureErrors = << >>
  /\ submitted = [j \in Jobs |-> {}]

handlerVars ==
  << event, pc, i, s3, metrics, payload, response, count, retry, error, raised,
     inflight, blobReads, normalizations, submissions, failedSubs, cleanSubs,
     reported, captureMessages, captureErrors, submitted >>

CallParseBody ==
  /\ fn = "parseBody"
  /\ result = None
  /\ result' = Some(parseBody(arg))
  /\ UNCHANGED << fn, arg, handlerVars >>

CallGetErrorsFromReponse ==
  /\ fn = "getErrorsFromReponse"
  /\ result = None
  /\ result' = Some(getErrorsFromReponse(arg))
  /\ UNCHANGED << fn, arg, handlerVars >>

NextHelper ==
  \/ CallParseBody
  \/ CallGetErrorsFromReponse

SpecHelper == InitHelper /\ [][NextHelper]_vars

\* An entry fails when it has no response, no status, or a status whose
\* first character is not "2".
FailingEntry(e) ==
  \/ e.response = None
  \/ Get(e.response).status = None
  \/ Len(Get(Get(e.response).status)) = 0
  \/ Get(Get(e.response).status)[1] # "2"

EntryList(resp) ==
  IF resp = None THEN << >>
  ELSE IF Get(resp).entry = None THEN << >>
  ELSE Get(Get(resp).entry)

FailingPositions(resp) ==
  { k \in 1 .. Len(EntryList(resp)) : FailingEntry(EntryList(resp)[k]) }

\* the m-th failing position, counted from the start of the response
NthFailing(resp, m) ==
  CHOOSE k \in FailingPositions(resp) :
    Cardinality({ x \in FailingPositions(resp) : x <= k }) = m

\* C11: getErrorsFromReponse returns the failing entries of the response, all
\* of them and no other, in the order of the response.
C11_ErrorsAreTheFailingEntries ==
  (fn = "getErrorsFromReponse" /\ IsSome(result)) =>
    /\ Len(Get(result)) = Cardinality(FailingPositions(arg))
    /\ \A m \in 1 .. Len(Get(result)) :
         Get(result)[m] = EntryList(arg)[NthFailing(arg, m)]

C11_Witness ==
  /\ fn = "getErrorsFromReponse"
  /\ arg = Some(Bundle(Some(<< NoResponseEntry, StatusEntry(<< "2", "0", "0" >>),
                               StatusEntry(<< "4", "0", "4" >>) >>)))
  /\ result = Some(<< NoResponseEntry, StatusEntry(<< "4", "0", "4" >>) >>)

BothPresentAsStrings(b) ==
  /\ IsSome(b)
  /\ Get(b).type = "string"
  /\ IsSome(Get(b).json)
  /\ Get(Get(b).json).t = "object"
  /\ \A f \in FieldNames :
       /\ f \in DOMAIN Get(Get(b).json).v
       /\ Get(Get(b).json).v[f].t = "string"

PairOf(b) ==
  [s3BucketName |-> Get(Get(b).json).v["s3BucketName"].v,
   s3FileName |-> Get(Get(b).json).v["s3FileName"].v]

\* C12 (as claimed): parseBody returns the pair of the body's two values
\* whenever both fields are present as strings, and throws otherwise.
C12_ParsesWhenBothStrings ==
  (fn = "parseBody" /\ IsSome(result)) =>
    IF BothPresentAsStrings(arg)
      THEN Get(result).error = None /\ Get(result).value = Some(PairOf(arg))
      ELSE IsSome(Get(result).error) /\ Get(result).value = None

\* C12 (amended): parseBody returns the pair of the body's two values, and
\* nothing else, whenever both fields are present as non-empty strings; it
\* throws for every other body: not a string, empty, not JSON, not an
\* object, a field missing, not a string, or the empty string.
C12_ParsesWhenBothNonEmptyStrings ==
  (fn = "parseBody" /\ IsSome(result)) =>
    IF ~MalformedBody(arg)
      THEN Get(result).error = None /\ Get(result).value = Some(PairOf(arg))
      ELSE IsSome(Get(result).error) /\ Get(result).value = None

C12_Witness ==
  /\ fn = "parseBody"
  /\ IsSome(arg)
  /\ Get(arg).type = "string"
  /\ IsSome(Get(arg).json)
  /\ Get(Get(arg).json).t = "object"
  /\ DOMAIN Get(Get(arg).json).v = PropertyNames
  /\ result = Some(Success([s3BucketName |-> "bucket1", s3FileName |-> "patientA.json"]))

----------------------------------------------------------------------------
(* The Retry Controller of the design (section 4.5) and the loop of the handler *)

\* The state of the Retry Controller that a position of the handler stands for
ControllerState(p, err) ==
  CASE p = "while" -> "Attempting"
    [] p = "await_submit" -> "Evaluating"
    [] p \in AfterLoop -> "Done"
    [] p \in Caught /\ err # None /\ Get(err).message = "Too many errors from FHIR" -> "Exhausted"
    [] OTHER -> "Idle"

\* One transition of the Retry Controller: from state s with attempt count a
\* to state t with attempt count b, where failures is the number of failing
\* entries of the response just received, aborted says that the submission
\* ended with a transport failure instead of a response, and sent is the
\* number of submissions issued by the transition.
ControllerStep(s, a, t, b, failures, aborted, sent) ==
  \/ s = "Idle" /\ t = "Attempting" /\ b = 0 /\ sent = 0
  \/ s = "Attempting" /\ t = "Evaluating" /\ b = a + 1 /\ sent = 1
  \/ s = "Evaluating" /\ ~aborted /\ failures = 0 /\ t = "Done" /\ b = a /\ sent = 0
  \/ s = "Evaluating" /\ ~aborted /\ failures > 0 /\ a < 10 /\ t = "Attempting" /\ b = a /\ sent = 0
  \/ s = "Evaluating" /\ ~aborted /\ failures > 0 /\ a = 10 /\ t = "Exhausted" /\ b = a /\ sent = 0
  \/ s = "Evaluating" /\ aborted /\ t = "Idle" /\ b = a /\ sent = 0
  \/ s = "Done" /\ t \in {"Done", "Idle"} /\ b = a /\ sent = 0
  \/ s = "Exhausted" /\ t = "Exhausted" /\ b = a /\ sent = 0
  \/ s = "Idle" /\ t = "Idle" /\ b = a /\ sent = 0

\* C13: every step of the handler is a transition of the Retry Controller,
\* with the attempt count read from count: it starts at 0, grows by one with
\* each submission and only then, and after a response the controller is
\* Done on zero failures, Attempting again on failures with count < 10, and
\* Exhausted on failures with count = 10.
C13_LoopIsRetryController ==
  [][ ControllerStep(ControllerState(pc, error), count,
                     ControllerState(pc', error'), count',
                     Cardinality(FailingPositions(response')),
                     error' = Some(Error("Network error")),
                     IF i \in Jobs THEN submissions'[i] - submissions[i] ELSE 0)
      /\ \A j \in Jobs : j # i => submissions'[j] = submissions[j] ]_vars

C13_Witness ==
  /\ pc = "while"
  /\ retry
  /\ count = 9
  /\ failedSubs[i] = 9
  /\ submissions[i] = 9

\* C14: the attempt count and the Metrics belong to the record being
\* processed: inside and after the loop count is the number of submissions
\* of this record alone, so every record may get up to 10 submissions; the
\* Metrics are empty when the processing of a record starts, and the Metrics
\* flushed for a record hold its own attempt count and a job entry exactly
\* when its own message carries startedAt.
C14_CounterAndMetricsPerRecord ==
  /\ pc \in {"while", "await_submit"} \cup AfterLoop => count = submissions[i]
  /\ pc = "while" /\ submissions[i] = 0 => count = 0 /\ retry
  /\ pc \in {"fetch", "await_fetch"} => metrics = NoMetrics
  /\ pc = "normalize" => metrics = [NoMetrics EXCEPT !.download = Some("duration")]
  /\ \A j \in Jobs : submissions[j] <= 10
  /\ \A j \in Jobs :
       \A k \in 1 .. Len(reported[j]) :
         /\ reported[j][k].errorCount = Some(submissions[j])
         /\ IsSome(reported[j][k].job)
              <=> IsSome(Get(Records[j + 1].messageAttributes).startedAt)

C14_Witness ==
  /\ i = 1
  /\ submissions[0] = 10
  /\ Len(reported[0]) = 1
  /\ IsSome(reported[0][1].job)
  /\ submissions[1] = 10
  /\ Len(reported[1]) = 1
  /\ reported[1][1].errorCount = Some(10)
  /\ ~IsSome(reported[1][1].job)

\* the bundle that normalizing the blob of record j gives
BundleOf(j) ==
  Some([patientId |-> Get(Get(Records[j + 1].messageAttributes).patientId),
        contentsOf |-> PairOf(Records[j + 1].body)])

\* C15: a record's blob is read once and normalized once, both before its
\* first submission and never again; every submission of the record passes
\* the one bundle that the normalization gave.
C15_OneFetchOneBundle ==
  \A j \in Jobs :
    /\ blobReads[j] <= 1
    /\ normalizations[j] <= 1
    /\ normalizations[j] <= blobReads[j]
    /\ submissions[j] >= 1 =>
         /\ blobReads[j] = 1
         /\ normalizations[j] = 1
         /\ InFlight(j, "executeWithRetriesS3") = {}
         /\ submitted[j] = { BundleOf(j) }
         /\ j = i => submitted[j] = { payload }
    /\ submissions[j] = 0 => submitted[j] = {}

C15_Witness ==
  /\ submissions[0] = 4
  /\ failedSubs[0] = 3
  /\ blobReads[0] = 1
  /\ normalizations[0] = 1
  /\ Cardinality(submitted[0]) = 1

\* submissions of record j that ended without a response: with the error
\* executeWithNetworkRetries gave up with
Unanswered(j) ==
  submissions[j] - failedSubs[j] - cleanSubs[j] - Cardinality(InFlight(j, "executeBatch"))

\* C16: a submission that ends with a transport failure is the last one of
\* its record, whatever the attempt count: the handler is on its catch path
\* with that failure as the error, no call is in flight, and what it raises
\* is the wrapped transport failure, not 'Too many errors from FHIR'.
C16_TransportFailureNotRetried ==
  /\ \A j \in Jobs :
       /\ Unanswered(j) \in {0, 1}
       /\ Unanswered(j) = 1 =>
            /\ j = i
            /\ pc \in Caught
            /\ error = Some(Error("Network error"))
            /\ inflight = {}
            /\ pc = "raised" => raised = Some(Wrapped(Error("Network error")))
  /\ Failed("Network error") =>
       /\ Unanswered(i) = 1
       /\ cleanSubs[i] = 0
       /\ count = submissions[i]
       /\ count <= 10

C16_Witness ==
  /\ pc = "raised"
  /\ raised = Some(Wrapped(Error("Network error")))
  /\ submissions[i] = 3
  /\ failedSubs[i] = 2
  /\ count = 3

Terminated == pc \in {"returned", "raised"}

\* C17 (as claimed): the handler eventually ends, by returning or by raising,
\* and the retry loop of every record that was submitted has then reached
\* Done (a response without failing entries) or Exhausted (10 responses with
\* failing entries).
C17_TerminatesWithLoopsDoneOrExhausted ==
  <>( /\ Terminated
      /\ \A j \in Jobs :
           submissions[j] >= 1 => cleanSubs[j] = 1 \/ failedSubs[j] = 10 )

\* C17 (amended): no record ever gets more than 10 submissions, and the
\* handler eventually ends, by returning or by raising, with no call in
\* flight; the retry loop of every record that was submitted has then
\* reached Done or Exhausted or was left by a submission that failed.
C17_TerminatesWithLoopsLeft ==
  /\ [](\A j \in Jobs : submissions[j] <= 10)
  /\ <>( /\ Terminated
         /\ inflight = {}
         /\ \A j \in Jobs :
              submissions[j] >= 1 =>
                \/ cleanSubs[j] = 1
                \/ failedSubs[j] = 10
                \/ Unanswered(j) = 1 /\ Failed("Network error") )

C17_Witness ==
  /\ pc = "returned"
  /\ i = 2
  /\ submissions[0] = 10
  /\ submissions[1] = 10
  /\ cleanSubs[0] = 1
  /\ cleanSubs[1] = 1
  /\ inflight = {}

\* the record in hand got one response, its first, and that response is absent
\* or carries no entry list or an empty one
FirstResponseWithoutEntries(j) ==
  /\ i = j
  /\ failedSubs[j] = 0
  /\ cleanSubs[j] >= 1
  /\ EntryList(response) = << >>

UpsertError == "Error upserting Bundle on FHIR server"

IsUpsertError(m) == m = UpsertError

\* C18 (as claimed): when the first response of a record is absent or has no
\* entries, the retry loop ends after exactly one submission, the record goes
\* on as a success with errorCount.count = 1, and no error is raised for it.
C18_NoEntriesIsSuccess ==
  \A j \in Jobs :
    FirstResponseWithoutEntries(j) =>
      /\ submissions[j] = 1
      /\ cleanSubs[j] = 1
      /\ count = 1
      /\ pc \in AfterLoop
      /\ error = None
      /\ raised = None
      /\ pc \in {"process", "report", "await_report"} => metrics.errorCount = Some(1)
      /\ \A k \in 1 .. Len(reported[j]) : reported[j][k].errorCount = Some(1)
      /\ SelectSeq(captureMessages, IsUpsertError) = << >>

\* What holds of such a record whatever the metrics sink does: one submission,
\* the loop left with count = 1, errorCount.count = 1 handed to reportMetrics,
\* and the only error there can be is the rejection of reportMetrics itself.
C18_NoEntriesLeavesLoopDone ==
  \A j \in Jobs :
    FirstResponseWithoutEntries(j) =>
      /\ submissions[j] = 1
      /\ cleanSubs[j] = 1
      /\ count = 1
      /\ pc \in AfterLoop \cup Caught
      /\ pc \in AfterLoop => error = None
      /\ pc \in Caught => Failed("CloudWatch error") /\ Len(reported[j]) = 1
      /\ pc \in {"process", "report", "await_report"} => metrics.errorCount = Some(1)
      /\ \A k \in 1 .. Len(reported[j]) : reported[j][k].errorCount = Some(1)
      /\ SelectSeq(captureMessages, IsUpsertError) = << >>

C18_Witness ==
  /\ FirstResponseWithoutEntries(0)
  /\ response = Some(Bundle(Some(<< >>)))
  /\ pc = "await_report"
  /\ reported[0] # << >>
  /\ reported[0][1].errorCount = Some(1)

NoRecords == ~IsSome(event.Records) \/ Len(Records) < 1

\* C19: with an event whose Records are absent or empty the handler returns
\* normally and has no effect: no blob read, no normalization, no batch
\* submission, no metrics flush, no call in flight, no capture.message, no
\* capture.error, and no error caught or raised.
C19_NoRecordsNoEffect ==
  NoRecords =>
    /\ pc \in {"start", "returned"}
    /\ \A j \in Jobs : Untouched(j) /\ failedSubs[j] = 0 /\ cleanSubs[j] = 0 /\ submitted[j] = {}
    /\ inflight = {}
    /\ captureMessages = << >>
    /\ captureErrors = << >>
    /\ error = None
    /\ raised = None
    /\ metrics = NoMetrics

C19_Witness ==
  /\ pc = "returned"
  /\ event.Records = None
  /\ \A j \in Jobs : Untouched(j)
  /\ captureMessages = << >>

C19_WitnessEmpty ==
  /\ pc = "returned"
  /\ event.Records = Some(<< >>)
  /\ \A j \in Jobs : Untouched(j)

\* C20: processFHIRResponse is only reached with a response without failing
\* entries, so 'Error upserting Bundle on FHIR server' is never sent; a
\* record whose submissions were all answered with failing entries is still
\* in the retry loop or has left it by raising 'Too many errors from FHIR'
\* after 10 of them, and nothing was processed or reported for it.
C20_ProcessOnlyCleanResponses ==
  /\ SelectSeq(captureMessages, IsUpsertError) = << >>
  /\ pc \in {"afterLoop", "process"} =>
       /\ getErrorsFromReponse(response) = << >>
       /\ cleanSubs[i] = 1
  /\ \A j \in Jobs :
       (submissions[j] >= 1 /\ cleanSubs[j] = 0) =>
         /\ i = j
         /\ pc \in {"while", "await_submit"} \cup Caught
         /\ reported[j] = << >>
         /\ (pc \in Caught /\ Unanswered(j) = 0) =>
              /\ failedSubs[j] = maxRetries
              /\ Failed("Too many errors from FHIR")
              /\ getErrorsFromReponse(response) # << >>

C20_Witness ==
  /\ pc = "process"
  /\ i = 0
  /\ failedSubs[0] = 9
  /\ cleanSubs[0] = 1
  /\ getErrorsFromReponse(response) = << >>
  /\ captureMessages = << >>

C20_WitnessRaising ==
  /\ pc = "raised"
  /\ i = 0
  /\ failedSubs[0] = 10
  /\ cleanSubs[0] = 0
  /\ reported[0] = << >>

====
